---- MODULE Spec2Model ----
(***************************************************************************)
(* Vesting schedule aggregation: validation.validate_row,                  *)
(* process_data.process_batch and process_data.process_csv.                *)
(*                                                                         *)
(* A CSV row is a record of six raw strings.  A Decimal is a record        *)
(* [kind, sign, coeff, exp] with value (-1)^sign * coeff * 10^exp; an      *)
(* aggregated quantity is an integer counted in units of 10^-precision     *)
(* (all quantized quantities of one run share that exponent).  A datetime  *)
(* is a tuple <<year, month, day>>.                                        *)
(***************************************************************************)
EXTENDS Integers, Sequences, FiniteSets, TLC

VARIABLES
    file,              \* the file argument: [csv_ext, exists, lines]
    target_date,       \* process_csv argument (a datetime)
    precision,         \* process_csv argument
    pc,                \* position of process_csv / of the validate_row harness
    index,             \* enumerate(reader) index of the next row to read
    batch,             \* process_csv: rows of the current batch, <<index, row>>
    batch_index,       \* process_csv: number of full batches processed
    events,            \* process_csv: running aggregate map
    error_count,       \* process_csv: running error count
    error_messages,    \* process_csv: running error message list
    b_pos,             \* process_batch: position of the for loop in the batch
    b_events,          \* process_batch: partial map
    b_error_count,     \* process_batch: error count of the batch
    b_error_messages,  \* process_batch: error messages of the batch
    log,               \* lines given to logging.warning, in order
    result,            \* what process_csv returned or raised
    calls,             \* the calls of process_batch so far: [batch, batch_index]
    stdout,            \* main: the lines display_results printed
    v_in,              \* validate_row harness: the arguments
    v_out              \* validate_row harness: the value returned

vars == <<file, target_date, precision, pc, index, batch, batch_index, events,
          error_count, error_messages, b_pos, b_events, b_error_count,
          b_error_messages, log, result, calls, stdout, v_in, v_out>>

----------------------------------------------------------------------------
(* Bounds of the model *)

\* rows per batch; the program's BATCH_SIZE (100) scaled down
BATCH_SIZE == 2
\* longest input file, in rows
MaxRows == 4
\* largest precision argument
MaxPrecision == 2
\* largest index handed to validate_row by the harness
MaxIndex == 1

----------------------------------------------------------------------------
(* validation.py *)

FIELD_NAMES ==
    <<"event_type", "emp_id", "emp_name", "award_id", "date", "quantity">>

\* a field the csv reader left unset (Python None)
NONE == "<None>"

RECURSIVE Pow10(_)
Pow10(n) == IF n <= 0 THEN 1 ELSE 10 * Pow10(n - 1)

\* str.strip() on the strings of the model
strip(s) ==
    CASE s = " "     -> ""
      [] s = " VEST" -> "VEST"
      [] OTHER       -> s

\* the test of validate_row's first loop on one field
IsBlank(s) == s = NONE \/ strip(s) = ""

\* the year, month and day fields '%Y-%m-%d' matches in s; <<>> if no match
DateFields(s) ==
    CASE s = "2024-01-01" -> <<2024, 1, 1>>
      [] s = "2024-1-5"   -> <<2024, 1, 5>>
      [] s = "2024-01-15" -> <<2024, 1, 15>>
      [] s = "2024-02-01" -> <<2024, 2, 1>>
      [] s = "2024-02-29" -> <<2024, 2, 29>>
      [] s = "2023-02-29" -> <<2023, 2, 29>>
      [] s = "2024-02-30" -> <<2024, 2, 30>>
      [] s = "2024-05-01" -> <<2024, 5, 1>>
      [] s = "2024-13-01" -> <<2024, 13, 1>>
      [] OTHER            -> <<>>

IsLeap(y) == (y % 4 = 0 /\ y % 100 # 0) \/ y % 400 = 0

DaysInMonth(y, m) ==
    IF m = 2 THEN (IF IsLeap(y) THEN 29 ELSE 28)
    ELSE IF m \in {4, 6, 9, 11} THEN 30 ELSE 31

\* datetime.strptime(s, '%Y-%m-%d'): ok = FALSE stands for ValueError
strptime(s) ==
    LET f == DateFields(s) IN
    IF f = <<>> THEN [ok |-> FALSE, date |-> <<0, 0, 0>>]
    ELSE IF f[2] \in 1..12 /\ f[3] \in 1..DaysInMonth(f[1], f[2])
         THEN [ok |-> TRUE, date |-> f]
         ELSE [ok |-> FALSE, date |-> <<0, 0, 0>>]

\* datetime a <= datetime b
DateLE(a, b) ==
    \/ a[1] < b[1]
    \/ a[1] = b[1] /\ a[2] < b[2]
    \/ a[1] = b[1] /\ a[2] = b[2] /\ a[3] <= b[3]

Dec(k, s, c, e) == [kind |-> k, sign |-> s, coeff |-> c, exp |-> e]

\* Decimal(s): kind "syntax" stands for InvalidOperation (ConversionSyntax)
Decimal(s) ==
    CASE s = "1.999"    -> Dec("finite", 0, 1999, -3)
      [] s = "2.5"      -> Dec("finite", 0, 25, -1)
      [] s = "100.5"    -> Dec("finite", 0, 1005, -1)
      [] s = "10"       -> Dec("finite", 0, 10, 0)
      [] s = "1e1"      -> Dec("finite", 0, 1, 1)
      [] s = "0"        -> Dec("finite", 0, 0, 0)
      [] s = "-0.5"     -> Dec("finite", 1, 5, -1)
      [] s = "-0.001"   -> Dec("finite", 1, 1, -3)
      [] s = "-1.5"     -> Dec("finite", 1, 15, -1)
      [] s = "NaN"      -> Dec("nan", 0, 0, 0)
      [] s = "Infinity" -> Dec("inf", 0, 0, 0)
      [] s = "-Infinity" -> Dec("inf", 1, 0, 0)
      [] OTHER          -> Dec("syntax", 0, 0, 0)

\* exponent of Decimal(f'1.{"0" * precision}')
rounding_format(p) == IF p > 0 THEN 0 - p ELSE 0

\* quantize with rounding=ROUND_HALF_UP
quantize_half_up(d, p) ==
    LET e == rounding_format(p)
        shift == d.exp - e
    IN  Dec("finite", d.sign,
            IF shift >= 0 THEN d.coeff * Pow10(shift)
            ELSE (d.coeff + 5 * Pow10(0 - shift - 1)) \div Pow10(0 - shift),
            e)

\* d.quantize(rounding_format, rounding=ROUND_DOWN) of a finite d: the
\* coefficient is cut, never rounded, and the sign is kept (also on zero)
quantize(d, p) ==
    LET e == rounding_format(p)
        shift == d.exp - e
    IN  Dec("finite", d.sign,
            IF shift >= 0 THEN d.coeff * Pow10(shift)
            ELSE d.coeff \div Pow10(0 - shift),
            e)

\* the integer d.coeff * (-1)^d.sign, the value of d in units of 10^d.exp
Units(d) == IF d.sign = 1 THEN 0 - d.coeff ELSE d.coeff

Error(i, category, row) ==
    [ok |-> FALSE, index |-> i, category |-> category, values |-> row]

\* validate_row with the date parsed before the event type is looked at
validate_row_date_first(row, i, p) ==
    IF \E n \in 1..Len(FIELD_NAMES) : IsBlank(row[FIELD_NAMES[n]])
    THEN Error(i, "Missing field", row)
    ELSE IF ~strptime(row.date).ok
    THEN Error(i, "Invalid date format", row)
    ELSE IF row.event_type \notin {"VEST", "CANCEL"}
    THEN Error(i, "Invalid event type", row)
    ELSE LET d == Decimal(row.quantity) IN
         IF d.kind # "finite"
         THEN Error(i, "Invalid quantity", row)
         ELSE LET quantity == quantize(d, p) IN
              IF Units(quantity) < 0
              THEN Error(i, "Negative quantity", row)
              ELSE [ok         |-> TRUE,
                    event_type |-> row.event_type,
                    emp_id     |-> row.emp_id,
                    emp_name   |-> row.emp_name,
                    award_id   |-> row.award_id,
                    event_date |-> strptime(row.date).date,
                    quantity   |-> quantity]

\* validate_row without 'if quantity < 0'
validate_row_any_sign(row, i, p) ==
    IF \E n \in 1..Len(FIELD_NAMES) : IsBlank(row[FIELD_NAMES[n]])
    THEN Error(i, "Missing field", row)
    ELSE IF row.event_type \notin {"VEST", "CANCEL"}
    THEN Error(i, "Invalid event type", row)
    ELSE IF ~strptime(row.date).ok
    THEN Error(i, "Invalid date format", row)
    ELSE LET d == Decimal(row.quantity) IN
         IF d.kind # "finite"
         THEN Error(i, "Invalid quantity", row)
         ELSE [ok         |-> TRUE,
               event_type |-> row.event_type,
               emp_id     |-> row.emp_id,
               emp_name   |-> row.emp_name,
               award_id   |-> row.award_id,
               event_date |-> strptime(row.date).date,
               quantity   |-> quantize(d, p)]

validate_row(row, i, p) ==
    IF \E n \in 1..Len(FIELD_NAMES) : IsBlank(row[FIELD_NAMES[n]])
    THEN Error(i, "Missing field", row)
    ELSE IF row.event_type \notin {"VEST", "CANCEL"}
    THEN Error(i, "Invalid event type", row)
    ELSE IF ~strptime(row.date).ok
    THEN Error(i, "Invalid date format", row)
    ELSE LET d == Decimal(row.quantity) IN
         \* Decimal() raises on bad syntax, quantize raises on an infinity,
         \* the comparison of a NaN with 0 raises: all are caught at line 47
         IF d.kind # "finite"
         THEN Error(i, "Invalid quantity", row)
         ELSE LET quantity == quantize(d, p) IN
              IF Units(quantity) < 0
              THEN Error(i, "Negative quantity", row)
              ELSE [ok         |-> TRUE,
                    event_type |-> row.event_type,
                    emp_id     |-> row.emp_id,
                    emp_name   |-> row.emp_name,
                    award_id   |-> row.award_id,
                    event_date |-> strptime(row.date).date,
                    quantity   |-> quantity]

----------------------------------------------------------------------------
(* The inputs *)

Row(t, e, n, a, d, q) ==
    [event_type |-> t, emp_id |-> e, emp_name |-> n, award_id |-> a,
     date |-> d, quantity |-> q]

\* rows of the input files of process_csv
Rows ==
    { Row("VEST",   "E1", "Alice", "A1", "2024-01-01", "1.999"),
      Row("CANCEL", "E1", "Alice", "A1", "2024-02-01", "2.5"),
      Row("VEST",   "E1", "Alice", "A2", "2024-05-01", "10"),
      Row("VEST",   "E1", "Bob",   "A1", "2024-02-01", "100.5"),
      Row("VEST",   "E2", "Bob",   "A1", "2024-01-01", "-0.5"),
      Row("VESTED", "E1", "Alice", "A1", "2024-01-01", "10") }

TargetDates == { <<2024, 1, 15>>, <<2024, 2, 1>> }

Precisions == {0, MaxPrecision}

RECURSIVE SeqsUpTo(_, _)
SeqsUpTo(S, n) ==
    IF n = 0 THEN { <<>> }
    ELSE LET shorter == SeqsUpTo(S, n - 1) IN
         shorter \cup { Append(s, x) : s \in { t \in shorter : Len(t) = n - 1 }, x \in S }

\* the files: .csv files of up to MaxRows rows, files of another extension
\* (of one row, or empty) and paths of no file
Files ==
    { [csv_ext |-> TRUE, exists |-> TRUE, lines |-> l] : l \in SeqsUpTo(Rows, MaxRows) }
    \cup { [csv_ext |-> FALSE, exists |-> TRUE, lines |-> l] : l \in SeqsUpTo(Rows, 1) }
    \cup { [csv_ext |-> TRUE, exists |-> FALSE, lines |-> <<>>],
           [csv_ext |-> FALSE, exists |-> FALSE, lines |-> <<>>] }

\* rows handed to validate_row by the harness
EventTypes == {"VEST", "CANCEL", "VESTED", " VEST", ""}
Names      == {"Alice", " ", NONE}
DateTexts  == {"2024-01-01", "2024-1-5", "2024-02-29", "2023-02-29",
               "2024-13-01", "01/02/2024", ""}
Quantities == {"1.999", "10", "1e1", "0", "-0.5", "-0.001", "-1.5", "abc",
               "NaN", "Infinity", "-Infinity", NONE}

AllRows ==
    { Row(t, "E1", n, "A1", d, q) :
        t \in EventTypes, n \in Names, d \in DateTexts, q \in Quantities }

NoCall == [row |-> Row("", "", "", "", "", ""), index |-> 0, precision |-> 0]
NoValue == [ok |-> FALSE, index |-> 0, category |-> "",
            values |-> Row("", "", "", "", "", "")]

----------------------------------------------------------------------------
(* process_data.py *)

EmptyMap == [k \in {} |-> 0]

\* events[key] of a defaultdict(Decimal)
Get(m, k) == IF k \in DOMAIN m THEN m[k] ELSE 0

Put(m, k, v) == [x \in DOMAIN m \cup {k} |-> IF x = k THEN v ELSE m[x]]

\* apply_event with 'events[key] = Decimal(0)' on every event after the
\* target date
apply_event_zero_overwrite(m, ev, target) ==
    LET key == <<ev.emp_id, ev.emp_name, ev.award_id>> IN
    IF DateLE(ev.event_date, target)
    THEN IF ev.event_type = "VEST"
         THEN Put(m, key, Get(m, key) + Units(ev.quantity))
         ELSE IF ev.event_type = "CANCEL"
         THEN Put(m, key, Get(m, key) - Units(ev.quantity))
         ELSE m
    ELSE Put(m, key, 0)

\* apply_event with key = (emp_id, award_id)
apply_event_without_name(m, ev, target) ==
    LET key == <<ev.emp_id, ev.award_id>> IN
    IF DateLE(ev.event_date, target)
    THEN IF ev.event_type = "VEST"
         THEN Put(m, key, Get(m, key) + Units(ev.quantity))
         ELSE IF ev.event_type = "CANCEL"
         THEN Put(m, key, Get(m, key) - Units(ev.quantity))
         ELSE m
    ELSE IF key \notin DOMAIN m THEN Put(m, key, 0) ELSE m

\* apply_event without its else branch: events after the target date are
\* dropped
apply_event_skip_future(m, ev, target) ==
    LET key == <<ev.emp_id, ev.emp_name, ev.award_id>> IN
    IF DateLE(ev.event_date, target)
    THEN IF ev.event_type = "VEST"
         THEN Put(m, key, Get(m, key) + Units(ev.quantity))
         ELSE IF ev.event_type = "CANCEL"
         THEN Put(m, key, Get(m, key) - Units(ev.quantity))
         ELSE m
    ELSE m

\* apply_event with a CANCEL that stops at 0
apply_event_clamped(m, ev, target) ==
    LET key == <<ev.emp_id, ev.emp_name, ev.award_id>> IN
    IF DateLE(ev.event_date, target)
    THEN IF ev.event_type = "VEST"
         THEN Put(m, key, Get(m, key) + Units(ev.quantity))
         ELSE IF ev.event_type = "CANCEL"
         THEN Put(m, key, IF Get(m, key) < Units(ev.quantity) THEN 0
                          ELSE Get(m, key) - Units(ev.quantity))
         ELSE m
    ELSE IF key \notin DOMAIN m THEN Put(m, key, 0) ELSE m

\* lines 48-58 of process_batch: a validated row is applied to the partial map
apply_event(m, ev, target) ==
    LET key == <<ev.emp_id, ev.emp_name, ev.award_id>> IN
    IF DateLE(ev.event_date, target)
    THEN IF ev.event_type = "VEST"
         THEN Put(m, key, Get(m, key) + Units(ev.quantity))
         ELSE IF ev.event_type = "CANCEL"
         THEN Put(m, key, Get(m, key) - Units(ev.quantity))
         ELSE m
    ELSE IF key \notin DOMAIN m THEN Put(m, key, 0) ELSE m

\* batch_step that also enters the key of a rejected row with 0
batch_step_keeps_key(b, validated_row, target) ==
    IF ~validated_row.ok
    THEN [events         |-> Put(b.events,
                                 <<validated_row.values.emp_id,
                                   validated_row.values.emp_name,
                                   validated_row.values.award_id>>,
                                 Get(b.events,
                                     <<validated_row.values.emp_id,
                                       validated_row.values.emp_name,
                                       validated_row.values.award_id>>)),
          error_count    |-> b.error_count + 1,
          error_messages |-> Append(b.error_messages, validated_row)]
    ELSE [events         |-> apply_event(b.events, validated_row, target),
          error_count    |-> b.error_count,
          error_messages |-> b.error_messages]

\* the body of the for loop of process_batch: b holds the function's locals
\* and validated_row what validate_row returned
batch_step(b, validated_row, target) ==
    IF ~validated_row.ok
    THEN [events         |-> b.events,
          error_count    |-> b.error_count + 1,
          error_messages |-> Append(b.error_messages, validated_row)]
    ELSE [events         |-> apply_event(b.events, validated_row, target),
          error_count    |-> b.error_count,
          error_messages |-> b.error_messages]

\* the index process_batch hands to validate_row
row_index(bi, i) == bi * BATCH_SIZE + i

\* merge with 'events[key] = quantity'
merge_overwrite(ev, be) ==
    [k \in DOMAIN ev \cup DOMAIN be |->
        IF k \in DOMAIN be THEN be[k] ELSE ev[k]]

\* merge with 'events.setdefault(key, quantity)': only absent keys are entered
merge_only_absent(ev, be) ==
    [k \in DOMAIN ev \cup DOMAIN be |->
        IF k \in DOMAIN ev THEN ev[k] ELSE be[k]]

\* merge that deletes the keys whose sum is 0
merge_prune_zero(ev, be) ==
    LET m == [k \in DOMAIN ev \cup DOMAIN be |->
                 IF k \in DOMAIN be THEN Get(ev, k) + be[k] ELSE ev[k]]
    IN  [k \in { x \in DOMAIN m : m[x] # 0 } |-> m[k]]

\* for key, quantity in batch_events.items(): events[key] += quantity
merge(ev, be) ==
    [k \in DOMAIN ev \cup DOMAIN be |->
        IF k \in DOMAIN be THEN Get(ev, k) + be[k] ELSE ev[k]]

\* process_batch on rows from..to of lines (positions from 1, the enumerate
\* index of a row is its position - 1) as batch number bi, from locals b
RECURSIVE process_batch(_, _, _, _, _, _, _)
process_batch(lines, from, to, b, target, p, bi) ==
    IF from > to THEN b
    ELSE process_batch(lines, from + 1, to,
             batch_step(b, validate_row(lines[from], row_index(bi, from - 1), p),
                        target),
             target, p, bi)

NoLocals == [events |-> EmptyMap, error_count |-> 0, error_messages |-> <<>>]

Min(a, b) == IF a <= b THEN a ELSE b

\* the map process_csv builds from the rows lines: batch after batch from
\* batch number bi on, each merged into ev
RECURSIVE process_csv(_, _, _, _, _)
process_csv(lines, bi, ev, target, p) ==
    IF bi * BATCH_SIZE >= Len(lines) THEN ev
    ELSE process_csv(lines, bi + 1,
             merge(ev, process_batch(lines, bi * BATCH_SIZE + 1,
                                     Min((bi + 1) * BATCH_SIZE, Len(lines)),
                                     NoLocals, target, p, bi).events),
             target, p)

----------------------------------------------------------------------------
(* vesting_program.py *)

\* the place of a string of the model among the strings of the model in the
\* order of Python's str comparison
StrOrd(s) ==
    CASE s = ""      -> 0
      [] s = " "     -> 1
      [] s = "A1"    -> 2
      [] s = "A2"    -> 3
      [] s = "Alice" -> 4
      [] s = "Bob"   -> 5
      [] s = "E1"    -> 6
      [] s = "E2"    -> 7

\* TupleLess on (emp_id, award_id, emp_name)
TupleLess_award_first(a, b) ==
    \/ StrOrd(a[1]) < StrOrd(b[1])
    \/ a[1] = b[1] /\ StrOrd(a[3]) < StrOrd(b[3])
    \/ a[1] = b[1] /\ a[3] = b[3] /\ StrOrd(a[2]) < StrOrd(b[2])

\* tuple a < tuple b of three strings
TupleLess(a, b) ==
    \/ StrOrd(a[1]) < StrOrd(b[1])
    \/ a[1] = b[1] /\ StrOrd(a[2]) < StrOrd(b[2])
    \/ a[1] = b[1] /\ a[2] = b[2] /\ StrOrd(a[3]) < StrOrd(b[3])

\* the sorted list seq with k put in
RECURSIVE Insert(_, _)
Insert(seq, k) ==
    IF seq = <<>> THEN <<k>>
    ELSE IF TupleLess(seq[Len(seq)], k) THEN Append(seq, k)
    ELSE Append(Insert(SubSeq(seq, 1, Len(seq) - 1), k), seq[Len(seq)])

\* sorted(keys)
RECURSIVE sorted(_)
sorted(S) ==
    IF S = {} THEN <<>>
    ELSE LET k == CHOOSE x \in S : TRUE IN Insert(sorted(S \ {k}), k)

\* f"{value:.{p}f}" of a value of units of 10^-p: sign, integer digits and
\* the p fractional digits
Format(units, p) ==
    LET magnitude == IF units < 0 THEN 0 - units ELSE units IN
    [minus |-> units < 0,
     int   |-> magnitude \div Pow10(p),
     frac  |-> magnitude % Pow10(p),
     width |-> p]

\* the lines display_results(ev, p) prints
display_results(ev, p) ==
    LET keys == sorted(DOMAIN ev) IN
    [i \in 1..Len(keys) |->
        [emp_id        |-> keys[i][1],
         emp_name      |-> keys[i][2],
         award_id      |-> keys[i][3],
         vested_shares |-> Format(ev[keys[i]], p)]]

\* the state process_csv starts in, on a file of the set F
Start(F) ==
    /\ file \in F
    /\ target_date \in TargetDates
    /\ precision \in Precisions
    /\ pc = "start"
    /\ index = 0
    /\ batch = <<>>
    /\ batch_index = 0
    /\ events = EmptyMap
    /\ error_count = 0
    /\ error_messages = <<>>
    /\ b_pos = 1
    /\ b_events = EmptyMap
    /\ b_error_count = 0
    /\ b_error_messages = <<>>
    /\ log = <<>>
    /\ result = [kind |-> "none", value |-> EmptyMap]
    /\ calls = <<>>
    /\ stdout = <<>>
    /\ v_in = NoCall
    /\ v_out = NoValue

Init == Start(Files)

harness == <<v_in, v_out>>
args == <<file, target_date, precision>>
totals == <<events, error_count, error_messages>>
locals == <<b_pos, b_events, b_error_count, b_error_messages>>

\* validate_csv_file without the test of the extension
ValidateCsvFile_any_extension ==
    /\ pc = "start"
    /\ IF ~file.exists
       THEN /\ pc' = "fatal"
            /\ result' = [kind |-> "FileNotFoundError", value |-> EmptyMap]
       ELSE /\ pc' = "read"
            /\ UNCHANGED result
    /\ UNCHANGED <<args, index, batch, batch_index, totals, locals, log, harness, stdout, calls>>

\* validate_csv_file(file)
ValidateCsvFile ==
    /\ pc = "start"
    /\ IF ~file.csv_ext
       THEN /\ pc' = "fatal"
            /\ result' = [kind |-> "ValueError", value |-> EmptyMap]
       ELSE IF ~file.exists
       THEN /\ pc' = "fatal"
            /\ result' = [kind |-> "FileNotFoundError", value |-> EmptyMap]
       ELSE /\ pc' = "read"
            /\ UNCHANGED result
    /\ UNCHANGED <<args, index, batch, batch_index, totals, locals, log, harness, stdout, calls>>

\* the call of process_batch(batch, target_date, precision, batch_index): its
\* locals are initialised
EnterBatch(b) ==
    /\ calls' = Append(calls, [batch |-> b, batch_index |-> batch_index])
    /\ b_pos' = 1
    /\ b_events' = EmptyMap
    /\ b_error_count' = 0
    /\ b_error_messages' = <<>>

\* one iteration of 'for index, row in enumerate(reader)' up to the test of
\* the batch length
ReadRow ==
    /\ pc = "read"
    /\ index < Len(file.lines)
    /\ batch' = Append(batch, <<index, file.lines[index + 1]>>)
    /\ index' = index + 1
    /\ IF Len(batch') = BATCH_SIZE
       THEN pc' = "batch_full" /\ EnterBatch(batch')
       ELSE pc' = "read" /\ UNCHANGED <<locals, calls>>
    /\ UNCHANGED <<args, batch_index, totals, log, result, harness, stdout>>

\* EndOfRows without 'if batch:': the rest is processed also when empty
EndOfRows_always ==
    /\ pc = "read"
    /\ index = Len(file.lines)
    /\ pc' = "batch_tail" /\ EnterBatch(batch)
    /\ UNCHANGED <<args, index, batch, batch_index, totals, log, result, harness, stdout>>

\* the reader is exhausted: 'if batch:'
EndOfRows ==
    /\ pc = "read"
    /\ index = Len(file.lines)
    /\ IF batch # <<>>
       THEN pc' = "batch_tail" /\ EnterBatch(batch)
       ELSE pc' = "log" /\ UNCHANGED <<locals, calls>>
    /\ UNCHANGED <<args, index, batch, batch_index, totals, log, result, harness, stdout>>

\* ProcessBatchRow with a rejected row raised as a ValueError
ProcessBatchRow_raising ==
    /\ pc \in {"batch_full", "batch_tail"}
    /\ b_pos <= Len(batch)
    /\ LET validated_row ==
               validate_row(batch[b_pos][2],
                            row_index(batch_index, batch[b_pos][1]), precision)
           after == batch_step([events |-> b_events,
                                error_count |-> b_error_count,
                                error_messages |-> b_error_messages],
                               validated_row, target_date)
       IN  /\ b_events' = after.events
           /\ b_error_count' = after.error_count
           /\ b_error_messages' = after.error_messages
           /\ IF validated_row.ok
              THEN UNCHANGED <<pc, result>>
              ELSE /\ pc' = "fatal"
                   /\ result' = [kind |-> "ValueError", value |-> EmptyMap]
    /\ b_pos' = b_pos + 1
    /\ UNCHANGED <<args, index, batch, batch_index, totals, log, harness, stdout, calls>>

\* one iteration of the for loop of process_batch
ProcessBatchRow ==
    /\ pc \in {"batch_full", "batch_tail"}
    /\ b_pos <= Len(batch)
    /\ LET validated_row ==
               validate_row(batch[b_pos][2],
                            row_index(batch_index, batch[b_pos][1]), precision)
           after == batch_step([events |-> b_events,
                                error_count |-> b_error_count,
                                error_messages |-> b_error_messages],
                               validated_row, target_date)
       IN  /\ b_events' = after.events
           /\ b_error_count' = after.error_count
           /\ b_error_messages' = after.error_messages
    /\ b_pos' = b_pos + 1
    /\ UNCHANGED <<args, pc, index, batch, batch_index, totals, log, result, harness, stdout, calls>>

\* process_batch returns and process_csv merges what it returned
MergeBatch ==
    /\ pc \in {"batch_full", "batch_tail"}
    /\ b_pos > Len(batch)
    /\ events' = merge(events, b_events)
    /\ error_count' = error_count + b_error_count
    /\ error_messages' = error_messages \o b_error_messages
    /\ IF pc = "batch_full"
       THEN /\ batch_index' = batch_index + 1
            /\ batch' = <<>>
            /\ pc' = "read"
       ELSE /\ UNCHANGED <<batch_index, batch>>
            /\ pc' = "log"
    /\ UNCHANGED <<args, index, locals, log, result, harness, stdout, calls>>

Summary(n) == [ok |-> FALSE, index |-> n, category |-> "Total Lines Skipped",
               values |-> Row("", "", "", "", "", "")]

\* LogErrors with 'if error_count >= 0:'
LogErrors_always ==
    /\ pc = "log"
    /\ log' = <<Summary(error_count)>> \o error_messages
    /\ pc' = "return"
    /\ UNCHANGED <<args, index, batch, batch_index, totals, locals, result, harness, stdout, calls>>

\* 'if error_count > 0:' and the warnings it logs
LogErrors ==
    /\ pc = "log"
    /\ log' = IF error_count > 0
              THEN <<Summary(error_count)>> \o error_messages
              ELSE <<>>
    /\ pc' = "return"
    /\ UNCHANGED <<args, index, batch, batch_index, totals, locals, result, harness, stdout, calls>>

\* return dict(events)
Return ==
    /\ pc = "return"
    /\ result' = [kind |-> "returned", value |-> events]
    /\ pc' = "done"
    /\ UNCHANGED <<args, index, batch, batch_index, totals, locals, log, harness, stdout, calls>>

\* main: display_results(events, args.precision) on what process_csv returned
Display ==
    /\ pc = "done"
    /\ stdout' = display_results(result.value, precision)
    /\ pc' = "displayed"
    /\ UNCHANGED <<args, index, batch, batch_index, totals, locals, log, result, harness, calls>>

Next ==
    \/ ValidateCsvFile
    \/ ReadRow
    \/ EndOfRows
    \/ ProcessBatchRow
    \/ MergeBatch
    \/ LogErrors
    \/ Return
    \/ Display

Spec == Init /\ [][Next]_vars

\* process_csv on files of four kinds of rows: aggregated, dated after the
\* target date, rejected for its event type, rejected for its quantity
LiveRows ==
    { Row("VEST",   "E1", "Alice", "A1", "2024-01-01", "1.999"),
      Row("VEST",   "E1", "Alice", "A2", "2024-05-01", "10"),
      Row("VESTED", "E1", "Alice", "A1", "2024-01-01", "10"),
      Row("VEST",   "E2", "",      "A1", "2024-13-01", "abc") }

InitLive ==
    Start({ [csv_ext |-> TRUE, exists |-> TRUE, lines |-> l] :
                l \in SeqsUpTo(LiveRows, MaxRows) })

\* process_csv runs to its end: no step of it waits for anything
LiveSpec == InitLive /\ [][Next]_vars /\ WF_vars(Next)

----------------------------------------------------------------------------
(* validate_row on its own: one call on any row, index and precision *)

InitV ==
    /\ file = [csv_ext |-> TRUE, exists |-> TRUE, lines |-> <<>>]
    /\ target_date = <<2024, 1, 15>>
    /\ precision = 0
    /\ pc = "call"
    /\ index = 0
    /\ batch = <<>>
    /\ batch_index = 0
    /\ events = EmptyMap
    /\ error_count = 0
    /\ error_messages = <<>>
    /\ b_pos = 1
    /\ b_events = EmptyMap
    /\ b_error_count = 0
    /\ b_error_messages = <<>>
    /\ log = <<>>
    /\ result = [kind |-> "none", value |-> EmptyMap]
    /\ calls = <<>>
    /\ stdout = <<>>
    /\ v_in \in [row : AllRows, index : 0..MaxIndex, precision : 0..MaxPrecision]
    /\ v_out = NoValue

CallValidateRow ==
    /\ pc = "call"
    /\ v_out' = validate_row(v_in.row, v_in.index, v_in.precision)
    /\ pc' = "called"
    /\ UNCHANGED <<args, index, batch, batch_index, totals, locals, log, result, v_in, stdout, calls>>

NextV == CallValidateRow

SpecV == InitV /\ [][NextV]_vars

----------------------------------------------------------------------------
(* Vocabulary of the properties *)

KeyOf(row) == <<row.emp_id, row.emp_name, row.award_id>>

\* validate_row accepts the row (the index plays no part in that)
IsValid(row) == validate_row(row, 0, precision).ok

\* a valid row dated on or before target_date
OnOrBefore(row) == IsValid(row) /\ DateLE(strptime(row.date).date, target_date)

\* a valid row dated after target_date
PostCutoff(row) == IsValid(row) /\ ~DateLE(strptime(row.date).date, target_date)

QuantizedUnits(row) == Units(quantize(Decimal(row.quantity), precision))

\* sum of the quantized quantities of the first n rows of lines that are
\* valid, of type t, of key k and dated on or before target_date
RECURSIVE SumQty(_, _, _, _)
SumQty(lines, n, k, t) ==
    IF n = 0 THEN 0
    ELSE SumQty(lines, n - 1, k, t)
         + (IF OnOrBefore(lines[n]) /\ KeyOf(lines[n]) = k
               /\ lines[n].event_type = t
            THEN QuantizedUnits(lines[n]) ELSE 0)

Positions == 1..Len(file.lines)

ValidKeys == { KeyOf(file.lines[i]) : i \in { j \in Positions : IsValid(file.lines[j]) } }

\* the batch a row at position i (from 1) falls in
BatchOf(i) == (i - 1) \div BATCH_SIZE

Returned == pc = "done" /\ result.kind = "returned"

----------------------------------------------------------------------------
(* Properties *)

\* C1: in the map process_csv returns, the value of every key is the sum of
\* the quantized quantities of its valid VEST rows dated on or before
\* target_date minus the sum of those of its valid CANCEL rows dated on or
\* before target_date, negative when the cancellations exceed the vests.
C1_NetOfVestAndCancel ==
    Returned =>
        \A k \in DOMAIN result.value :
            result.value[k] = SumQty(file.lines, Len(file.lines), k, "VEST")
                              - SumQty(file.lines, Len(file.lines), k, "CANCEL")

\* a key vested in one batch and cancelled for more in another one
C1_Witness ==
    /\ Returned
    /\ \E i, j \in Positions :
          /\ BatchOf(i) # BatchOf(j)
          /\ OnOrBefore(file.lines[i]) /\ file.lines[i].event_type = "VEST"
          /\ OnOrBefore(file.lines[j]) /\ file.lines[j].event_type = "CANCEL"
          /\ KeyOf(file.lines[i]) = KeyOf(file.lines[j])
          /\ QuantizedUnits(file.lines[i]) > 0
          /\ result.value[KeyOf(file.lines[i])] < 0

\* the rows of lines but the valid rows of key k dated after target_date
WithoutPostCutoff(lines, k) ==
    SelectSeq(lines, LAMBDA r : ~(PostCutoff(r) /\ KeyOf(r) = k))

HasOnOrBefore(k) ==
    \E i \in Positions : OnOrBefore(file.lines[i]) /\ KeyOf(file.lines[i]) = k

\* C2: for a key with a valid event on or before target_date, the value
\* process_csv returns is the value it returns on the same rows without the
\* key's valid rows dated after target_date.
C2_PostCutoffRowsAlterNothing ==
    Returned =>
        \A k \in ValidKeys :
            HasOnOrBefore(k) =>
                LET without == process_csv(WithoutPostCutoff(file.lines, k), 0,
                                           EmptyMap, target_date, precision)
                IN  /\ k \in DOMAIN result.value
                    /\ k \in DOMAIN without
                    /\ result.value[k] = without[k]

\* a key with a post-cutoff row before its on-or-before row in an earlier
\* batch, and one with the post-cutoff row after it in the same batch
C2_Witness ==
    /\ Returned
    /\ \E i, j \in Positions :
          /\ i < j /\ BatchOf(i) # BatchOf(j)
          /\ PostCutoff(file.lines[i]) /\ OnOrBefore(file.lines[j])
          /\ KeyOf(file.lines[i]) = KeyOf(file.lines[j])
          /\ result.value[KeyOf(file.lines[j])] # 0
    /\ \E i, j \in Positions :
          /\ i < j /\ BatchOf(i) = BatchOf(j)
          /\ OnOrBefore(file.lines[i]) /\ PostCutoff(file.lines[j])
          /\ KeyOf(file.lines[i]) = KeyOf(file.lines[j])
          /\ result.value[KeyOf(file.lines[i])] # 0

\* C3: a key whose valid events are all dated after target_date is in the
\* map process_csv returns, with value 0.
C3_FutureOnlyKeyIsZero ==
    Returned =>
        \A k \in ValidKeys :
            ~HasOnOrBefore(k) => k \in DOMAIN result.value /\ result.value[k] = 0

\* a key with two post-cutoff events in two batches and no other event
C3_Witness ==
    /\ Returned
    /\ \E i, j \in Positions :
          /\ BatchOf(i) # BatchOf(j)
          /\ PostCutoff(file.lines[i]) /\ PostCutoff(file.lines[j])
          /\ KeyOf(file.lines[i]) = KeyOf(file.lines[j])
          /\ ~HasOnOrBefore(KeyOf(file.lines[i]))
          /\ result.value[KeyOf(file.lines[i])] = 0

\* the enumerate indexes of the rows among the first n of lines that
\* validate_row rejects, in order
RECURSIVE InvalidIndexes(_, _)
InvalidIndexes(lines, n) ==
    IF n = 0 THEN <<>>
    ELSE IF IsValid(lines[n]) THEN InvalidIndexes(lines, n - 1)
         ELSE Append(InvalidIndexes(lines, n - 1), n - 1)

\* C4: the row index in the error message of every rejected row is the
\* zero-based position of the row in the whole input, in the first batch
\* and in every later one.
C4_ErrorIndexIsRowPosition ==
    Returned =>
        [i \in 1..Len(error_messages) |-> error_messages[i].index]
            = InvalidIndexes(file.lines, Len(file.lines))

\* process_batch is about to process a row validate_row rejects
AtInvalidRow ==
    /\ pc \in {"batch_full", "batch_tail"}
    /\ b_pos <= Len(batch)
    /\ ~IsValid(batch[b_pos][2])

\* C5: processing a rejected row changes no key and no value of the batch's
\* partial map and of the running map, adds 1 to the error count, appends
\* one message to the error list, and goes on with the next row; so the
\* count and the list process_csv ends with have one entry per rejected row.
C5_InvalidRowOnlyCounts ==
    [][ /\ AtInvalidRow =>
            /\ b_events' = b_events
            /\ events' = events
            /\ b_error_count' = b_error_count + 1
            /\ Len(b_error_messages') = Len(b_error_messages) + 1
            /\ SubSeq(b_error_messages', 1, Len(b_error_messages)) = b_error_messages
            /\ b_pos' = b_pos + 1
            /\ pc' = pc
        /\ Returned' =>
            /\ error_count' = Len(InvalidIndexes(file.lines, Len(file.lines)))
            /\ Len(error_messages') = error_count'
      ]_vars

\* a batch whose first row was rejected and whose second row was aggregated
C5_Witness ==
    /\ pc \in {"batch_full", "batch_tail"}
    /\ b_pos = 3
    /\ ~IsValid(batch[1][2])
    /\ IsValid(batch[2][2])
    /\ b_error_count = 1
    /\ Len(b_error_messages) = 1
    /\ DOMAIN b_events = {KeyOf(batch[2][2])}

\* C6: once validate_csv_file has passed, process_csv ends by returning its
\* aggregate map, whatever rows are rejected.
C6_AlwaysReturns ==
    (pc = "read") ~> (pc = "done" /\ result.kind = "returned" /\ result.value = events)

\* process_csv has returned on a file of more than one batch whose rows
\* were all rejected
C6_Witness ==
    /\ Returned
    /\ Len(file.lines) > BATCH_SIZE
    /\ \A i \in Positions : ~IsValid(file.lines[i])
    /\ error_count = Len(file.lines)

----------------------------------------------------------------------------
(* Properties of validate_row *)

MissingField(row) == \E n \in 1..Len(FIELD_NAMES) : IsBlank(row[FIELD_NAMES[n]])

BadEventType(row) == row.event_type # "VEST" /\ row.event_type # "CANCEL"

BadDate(row) == ~strptime(row.date).ok

\* the quantity is no finite decimal number
BadQuantity(row) == Decimal(row.quantity).kind # "finite"

\* the quantity is below zero once cut to p fractional digits
NegativeQuantity(row, p) ==
    LET d == Decimal(row.quantity) IN
    /\ d.sign = 1
    /\ \/ d.kind = "inf"
       \/ d.kind = "finite" /\ quantize(d, p).coeff > 0

Categories ==
    <<"Missing field", "Invalid event type", "Invalid date format",
      "Invalid quantity", "Negative quantity">>

\* the checks, numbered in the order of the specification, the row fails
FailedChecks(row, p) ==
    { n \in 1..5 :
        \/ n = 1 /\ MissingField(row)
        \/ n = 2 /\ BadEventType(row)
        \/ n = 3 /\ BadDate(row)
        \/ n = 4 /\ BadQuantity(row)
        \/ n = 5 /\ NegativeQuantity(row, p) }

First(S) == CHOOSE n \in S : \A m \in S : n <= m

Called == pc = "called"

\* C7: validate_row reports the first of the checks missing field, event
\* type, date, quantity, negative quantity that the row fails, and accepts
\* the row only if it fails none.
C7_FirstFailedCheckWins ==
    Called =>
        LET failed == FailedChecks(v_in.row, v_in.precision) IN
        IF failed = {} THEN v_out.ok
        ELSE /\ ~v_out.ok
             /\ v_out.category = Categories[First(failed)]
             /\ v_out.index = v_in.index

\* a row failing the checks of event type, date and quantity at once
C7_Witness ==
    /\ Called
    /\ FailedChecks(v_in.row, v_in.precision) = {2, 3, 4, 5}
    /\ ~v_out.ok
    /\ v_out.category = "Invalid event type"

\* C8: the quantity of every event validate_row returns is >= 0; applied to
\* an empty map, a VEST leaves that quantity and a CANCEL its negation.
C8_QuantityNonNegative ==
    (Called /\ v_out.ok) =>
        /\ Units(v_out.quantity) >= 0
        /\ LET m == apply_event(EmptyMap, v_out, v_out.event_date)
               k == <<v_out.emp_id, v_out.emp_name, v_out.award_id>>
           IN  m[k] = IF v_out.event_type = "VEST"
                      THEN v_out.quantity.coeff
                      ELSE 0 - v_out.quantity.coeff

\* a CANCEL event returned with a quantity above zero
C8_Witness ==
    /\ Called
    /\ v_out.ok
    /\ v_out.event_type = "CANCEL"
    /\ v_out.quantity.coeff > 0

----------------------------------------------------------------------------
(* Properties of the aggregation, continued *)

\* the quantity of the row cut to p fractional digits, in units of 10^-p:
\* the integer part of |quantity| * 10^p, with the sign of the quantity
TruncatedUnits(row, p) ==
    LET d == Decimal(row.quantity)
        digits == IF p > 0 THEN p ELSE 0
        num == d.coeff * Pow10(digits) * Pow10(d.exp)
        den == Pow10(0 - d.exp)
        magnitude == num \div den
    IN  IF d.sign = 1 THEN 0 - magnitude ELSE magnitude

RECURSIVE SumTruncated(_, _)
SumTruncated(lines, n) ==
    IF n = 0 THEN 0
    ELSE SumTruncated(lines, n - 1) + TruncatedUnits(lines[n], precision)

\* the input is valid VEST rows of one key dated on or before target_date
VestOnlySingleKey ==
    /\ file.lines # <<>>
    /\ \A i \in Positions :
          /\ OnOrBefore(file.lines[i])
          /\ file.lines[i].event_type = "VEST"
          /\ KeyOf(file.lines[i]) = KeyOf(file.lines[1])

\* a quantity with more fractional digits than the precision keeps
LosesDigits(row) ==
    LET d == Decimal(row.quantity) IN
    /\ d.exp < rounding_format(precision)
    /\ d.coeff % Pow10(rounding_format(precision) - d.exp) # 0

\* C9: on valid VEST rows of one key dated on or before target_date,
\* process_csv returns for the key the sum of the quantities, each cut
\* toward zero to precision fractional digits before it is added.
C9_SumOfTruncatedQuantities ==
    (Returned /\ VestOnlySingleKey) =>
        /\ DOMAIN result.value = {KeyOf(file.lines[1])}
        /\ result.value[KeyOf(file.lines[1])]
             = SumTruncated(file.lines, Len(file.lines))

\* several rows of which two lose digits, at a precision above 0
C9_Witness ==
    /\ Returned
    /\ VestOnlySingleKey
    /\ precision > 0
    /\ \E i, j \in Positions :
          i # j /\ LosesDigits(file.lines[i]) /\ LosesDigits(file.lines[j])

\* process_batch is about to process a row validate_row accepts
AtValidRow ==
    /\ pc \in {"batch_full", "batch_tail"}
    /\ b_pos <= Len(batch)
    /\ IsValid(batch[b_pos][2])

AtMerge ==
    /\ pc \in {"batch_full", "batch_tail"}
    /\ b_pos > Len(batch)

\* entry k is the same, or as absent, in map m and in map n
SameEntry(m, n, k) ==
    /\ k \in DOMAIN m <=> k \in DOMAIN n
    /\ k \in DOMAIN m => m[k] = n[k]

\* C10: a valid event of key k = (emp_id, emp_name, award_id) changes no
\* entry of the partial map but that of k, a merge changes no entry of the
\* running map but those of the keys of the batch, and the map returned
\* has one entry per distinct tuple of the valid rows.
C10_KeyIsFullTuple ==
    [][ /\ AtValidRow =>
            \A k \in (DOMAIN b_events \cup DOMAIN b_events') \ {KeyOf(batch[b_pos][2])} :
                SameEntry(b_events, b_events', k)
        /\ AtMerge =>
            \A k \in (DOMAIN events \cup DOMAIN events') \ DOMAIN b_events :
                SameEntry(events, events', k)
        /\ Returned' => DOMAIN result'.value = ValidKeys
      ]_vars

\* two valid rows that differ in emp_name only ended in two entries of
\* different values
C10_Witness ==
    /\ Returned
    /\ \E i, j \in Positions :
          /\ IsValid(file.lines[i]) /\ IsValid(file.lines[j])
          /\ file.lines[i].emp_id = file.lines[j].emp_id
          /\ file.lines[i].award_id = file.lines[j].award_id
          /\ file.lines[i].emp_name # file.lines[j].emp_name
          /\ KeyOf(file.lines[i]) \in DOMAIN result.value
          /\ KeyOf(file.lines[j]) \in DOMAIN result.value
          /\ result.value[KeyOf(file.lines[i])] # result.value[KeyOf(file.lines[j])]

----------------------------------------------------------------------------
(* Properties of the whole run *)

PreconditionFails == ~file.csv_ext \/ ~file.exists

\* C11: on a path that does not end in '.csv' or names no file, process_csv
\* raises before it reads a row: no batch is processed, no diagnostic is
\* recorded or logged and no map is returned; the error is the ValueError
\* of the extension first, else the FileNotFoundError.
C11_FatalBeforeAnyRow ==
    PreconditionFails =>
        /\ pc \in {"start", "fatal"}
        /\ index = 0
        /\ batch = <<>>
        /\ calls = <<>>
        /\ events = EmptyMap
        /\ error_count = 0
        /\ error_messages = <<>>
        /\ log = <<>>
        /\ stdout = <<>>
        /\ result.kind # "returned"
        /\ pc = "fatal" =>
              result.kind = IF ~file.csv_ext THEN "ValueError"
                            ELSE "FileNotFoundError"

\* process_csv raised on a file of rows whose name does not end in '.csv'
C11_Witness ==
    /\ pc = "fatal"
    /\ ~file.csv_ext
    /\ file.exists
    /\ file.lines # <<>>
    /\ result.kind = "ValueError"

\* the enumerate indexes of the rows of the file that validate_row rejects
Rejected == InvalidIndexes(file.lines, Len(file.lines))

\* the number of batches the rows of the file make
NumBatches == (Len(file.lines) + BATCH_SIZE - 1) \div BATCH_SIZE

AfterLogging == pc \in {"return", "done", "displayed"}

\* C12: nothing is logged before every batch, the last partial one
\* included, is processed and merged; then, if rows were rejected, the log
\* is one summary line with their number followed by one message per
\* rejected row in the order of the rows, and is empty otherwise.
C12_DiagnosticsAfterAllBatches ==
    /\ log # <<>> =>
          /\ AfterLogging
          /\ index = Len(file.lines)
          /\ Len(calls) = NumBatches
    /\ AfterLogging =>
          LET rejected == Rejected
          IN  /\ error_count = Len(rejected)
              /\ Len(error_messages) = Len(rejected)
              /\ IF rejected = <<>> THEN log = <<>>
                 ELSE /\ Len(log) = 1 + Len(rejected)
                      /\ log[1] = Summary(Len(rejected))
                      /\ \A i \in 1..Len(rejected) :
                            /\ log[i + 1].category # "Total Lines Skipped"
                            /\ log[i + 1].values = file.lines[rejected[i] + 1]

\* two different rejected rows in two batches, the last batch a partial one
C12_Witness ==
    /\ pc = "done"
    /\ Len(file.lines) % BATCH_SIZE # 0
    /\ Len(log) >= 3
    /\ \E i, j \in 1..Len(Rejected) :
          /\ i < j
          /\ BatchOf(Rejected[i] + 1) # BatchOf(Rejected[j] + 1)
          /\ file.lines[Rejected[i] + 1] # file.lines[Rejected[j] + 1]
          /\ BatchOf(Rejected[j] + 1) = NumBatches - 1

LineKey(line) == <<line.emp_id, line.emp_name, line.award_id>>

\* tuple a is before tuple b in lexicographic order: they differ first at a
\* component where that of a is the smaller string
LexBefore(a, b) ==
    \E n \in 1..3 :
        /\ \A m \in 1..(n - 1) : a[m] = b[m]
        /\ StrOrd(a[n]) < StrOrd(b[n])

Displayed == pc = "displayed"

\* C13: display_results prints one line per key of the map, in strictly
\* increasing lexicographic order of (emp_id, emp_name, award_id).
C13_OutputSortedByKey ==
    Displayed =>
        /\ Len(stdout) = Cardinality(DOMAIN result.value)
        /\ { LineKey(stdout[i]) : i \in 1..Len(stdout) } = DOMAIN result.value
        /\ \A i, j \in 1..Len(stdout) :
              i < j => LexBefore(LineKey(stdout[i]), LineKey(stdout[j]))

\* three lines or more printed for keys that first appear in the input in
\* decreasing order, two of them ordered by emp_name against award_id
C13_Witness ==
    /\ Displayed
    /\ Len(stdout) >= 3
    /\ IsValid(file.lines[1]) /\ IsValid(file.lines[2])
    /\ LexBefore(KeyOf(file.lines[2]), KeyOf(file.lines[1]))
    /\ \E i, j \in 1..Len(stdout) :
          /\ i < j
          /\ StrOrd(stdout[j].award_id) < StrOrd(stdout[i].award_id)

\* one step of the single ordered pass: a rejected row changes nothing, a
\* VEST on or before target_date adds, a CANCEL on or before it subtracts,
\* a later event enters 0 if its key is not in the running total
PassStep(m, row) ==
    LET k == KeyOf(row) IN
    IF ~IsValid(row) THEN m
    ELSE IF OnOrBefore(row)
    THEN [x \in DOMAIN m \cup {k} |->
            IF x # k THEN m[x]
            ELSE (IF k \in DOMAIN m THEN m[k] ELSE 0)
                 + (IF row.event_type = "VEST" THEN QuantizedUnits(row)
                    ELSE 0 - QuantizedUnits(row))]
    ELSE IF k \in DOMAIN m THEN m
    ELSE [x \in DOMAIN m \cup {k} |-> IF x = k THEN 0 ELSE m[x]]

\* the running total of the single pass after the first n rows of lines
RECURSIVE SinglePass(_, _)
SinglePass(lines, n) ==
    IF n = 0 THEN EmptyMap ELSE PassStep(SinglePass(lines, n - 1), lines[n])

\* C15: the map process_csv returns, built batch by batch and merged with
\* events[key] += quantity, is the map of one pass over all rows in order.
C15_BatchingRefinesSinglePass ==
    Returned => result.value = SinglePass(file.lines, Len(file.lines))

\* several batches, a key aggregated in two of them and a key entered with
\* 0 by a batch before the batch that aggregates it
C15_Witness ==
    /\ Returned
    /\ Len(calls) >= 2
    /\ \E i, j \in Positions :
          /\ BatchOf(i) < BatchOf(j)
          /\ OnOrBefore(file.lines[i]) /\ OnOrBefore(file.lines[j])
          /\ KeyOf(file.lines[i]) = KeyOf(file.lines[j])
          /\ QuantizedUnits(file.lines[i]) # 0
    /\ \E i, j \in Positions :
          /\ BatchOf(i) < BatchOf(j)
          /\ PostCutoff(file.lines[i]) /\ OnOrBefore(file.lines[j])
          /\ KeyOf(file.lines[i]) = KeyOf(file.lines[j])
          /\ QuantizedUnits(file.lines[j]) # 0

\* the k-th call of process_batch (k from 1) got batch_index k - 1 and the
\* rows (k - 1) * BATCH_SIZE + 1 .. of the file, each with its enumerate
\* index; it got BATCH_SIZE rows unless it is the last call so far
CallIsSlice(k) ==
    LET c == calls[k]
        first == (k - 1) * BATCH_SIZE
    IN  /\ c.batch_index = k - 1
        /\ Len(c.batch) \in 1..BATCH_SIZE
        /\ k < Len(calls) => Len(c.batch) = BATCH_SIZE
        /\ first + Len(c.batch) <= Len(file.lines)
        /\ \A i \in 1..Len(c.batch) :
              c.batch[i] = <<first + i - 1, file.lines[first + i]>>

\* the rows handed to process_batch so far
RECURSIVE RowsHanded(_)
RowsHanded(k) == IF k = 0 THEN 0 ELSE RowsHanded(k - 1) + Len(calls[k].batch)

Partitioned ==
    /\ \A k \in 1..Len(calls) : CallIsSlice(k)
    /\ pc \in {"log", "return", "done", "displayed"} =>
          /\ Len(calls) = NumBatches
          /\ RowsHanded(Len(calls)) = Len(file.lines)
          /\ Len(calls) > 0 =>
                Len(calls[Len(calls)].batch)
                    = Len(file.lines) - (NumBatches - 1) * BATCH_SIZE

\* C16: process_csv hands the rows to process_batch in consecutive batches
\* in the order of the file, each row once: the k-th batch with
\* batch_index k, BATCH_SIZE rows in every batch but the last, 1 to
\* BATCH_SIZE rows in the last, a batch only after the one before it is
\* merged, and never an empty batch.
C16_ConsecutiveBatches ==
    [][ /\ calls' # calls =>
            /\ pc = "read"
            /\ Len(calls') = Len(calls) + 1
            /\ SubSeq(calls', 1, Len(calls)) = calls
            /\ events = process_csv(SubSeq(file.lines, 1, Len(calls) * BATCH_SIZE),
                                    0, EmptyMap, target_date, precision)
        /\ Partitioned'
      ]_vars

\* a file of full batches only: the last call got BATCH_SIZE rows and no
\* call followed it
C16_Witness ==
    /\ pc = "done"
    /\ Len(file.lines) > 0
    /\ Len(file.lines) % BATCH_SIZE = 0
    /\ Len(calls) = Len(file.lines) \div BATCH_SIZE
    /\ Len(calls[Len(calls)].batch) = BATCH_SIZE

\* no batch is merged yet
BeforeFirstMerge ==
    \/ calls = <<>>
    \/ Len(calls) = 1 /\ pc \in {"batch_full", "batch_tail"}

\* C17: the running map of process_csv is empty until the first batch is
\* merged, changes at merges only, never loses a key, and every key it ever
\* held is in the map returned.
C17_RunningMapGrows ==
    [][ /\ BeforeFirstMerge => events = EmptyMap
        /\ events' # events => AtMerge
        /\ DOMAIN events \subseteq DOMAIN events'
        /\ Returned' =>
              /\ result'.value = events'
              /\ DOMAIN events \subseteq DOMAIN result'.value
      ]_vars

\* the first merge entered a key, a later merge entered another key and
\* brought the first one back to 0
C17_Witness ==
    /\ Returned
    /\ Len(calls) >= 2
    /\ \E i, j \in Positions :
          /\ BatchOf(i) = 0 /\ BatchOf(j) > 0
          /\ IsValid(file.lines[i]) /\ IsValid(file.lines[j])
          /\ \A h \in Positions :
                BatchOf(h) = 0 => KeyOf(file.lines[h]) # KeyOf(file.lines[j])
          /\ QuantizedUnits(file.lines[i]) # 0
          /\ OnOrBefore(file.lines[i])
          /\ result.value[KeyOf(file.lines[i])] = 0
          /\ KeyOf(file.lines[j]) \in DOMAIN result.value

\* the quantity field is a finite decimal number below zero
DenotesNegative(row) ==
    LET d == Decimal(row.quantity) IN
    d.kind = "finite" /\ d.sign = 1 /\ d.coeff > 0

\* C18: at every precision validate_row rejects a row, sound in its other
\* fields, whose quantity is a number below zero, with the negative
\* quantity error.
C18_NegativeQuantityRejected ==
    (/\ Called
     /\ ~MissingField(v_in.row)
     /\ ~BadEventType(v_in.row)
     /\ ~BadDate(v_in.row)
     /\ DenotesNegative(v_in.row)) =>
        /\ ~v_out.ok
        /\ v_out.category = "Negative quantity"

\* lines with rows i and j exchanged
Exchanged(lines, i, j) ==
    [n \in 1..Len(lines) |->
        IF n = i THEN lines[j] ELSE IF n = j THEN lines[i] ELSE lines[n]]

\* the partial map process_batch returns for batch number bi of the file
PartialMap(bi) ==
    process_batch(file.lines, bi * BATCH_SIZE + 1,
                  Min((bi + 1) * BATCH_SIZE, Len(file.lines)),
                  NoLocals, target_date, precision, bi).events

\* the partial maps of the batches order[1], .., order[n] (numbered from 1)
\* summed in that order
RECURSIVE MergedInOrder(_, _)
MergedInOrder(order, n) ==
    IF n = 0 THEN EmptyMap
    ELSE merge(MergedInOrder(order, n - 1), PartialMap(order[n] - 1))

\* C19: process_csv returns the same keys and values when any two rows of
\* the file are exchanged, and the partial maps of the batches summed in any
\* order give the map it returns.  Every permutation of the rows is a
\* sequence of exchanges and every file of exchanged rows is a file of
\* Files, so the map is the same on every permutation of the rows.
C19_OrderIndependent ==
    Returned =>
        /\ \A i, j \in Positions :
              i < j =>
                  process_csv(Exchanged(file.lines, i, j), 0, EmptyMap,
                              target_date, precision) = result.value
        /\ \A order \in Permutations(1..NumBatches) :
              MergedInOrder(order, NumBatches) = result.value

\* a CANCEL in a batch before the VEST it exceeds, among rows of several
\* keys
C19_Witness ==
    /\ Returned
    /\ \E i, j \in Positions :
          /\ BatchOf(i) < BatchOf(j)
          /\ OnOrBefore(file.lines[i]) /\ file.lines[i].event_type = "CANCEL"
          /\ OnOrBefore(file.lines[j]) /\ file.lines[j].event_type = "VEST"
          /\ KeyOf(file.lines[i]) = KeyOf(file.lines[j])
          /\ result.value[KeyOf(file.lines[i])] < 0
    /\ Cardinality(DOMAIN result.value) >= 2

====
